---- MODULE Spec2Model ----
(***************************************************************************)
(* Model of the structured code-chunking engine of the code Q&A bot        *)
(* (backend/code_ingest_utils.py) and of the batch loop that drives it     *)
(* (backend/ingest_codebase.py).                                           *)
(*                                                                         *)
(* A line is a sequence of one-character strings, a file is a sequence of  *)
(* lines.  Indices of the Python code are 0-based; TLA+ sequences are      *)
(* 1-based, so lines[i] of the code is lines[i + 1] here.                  *)
(***************************************************************************)
EXTENDS Integers, Sequences, FiniteSets, TLC

\* ------------------------------------------------------------------------
\* Bounds of the model
\* ------------------------------------------------------------------------
\* longest file whose content is enumerated exhaustively
MaxLen == 3
\* largest small chunk_max_lines argument tried besides the default
MaxChunk == 2
\* longest batch of files handed to ingest_codebase
MaxFiles == 2
\* how far below zero the cursor is followed when chunk_max_lines < 0
CurFloor == 2

\* ------------------------------------------------------------------------
\* Program constants
\* ------------------------------------------------------------------------
\* size = 200 in the fallback branch of find_code_block_boundaries
FallbackSize == 200
\* default of the chunk_max_lines parameter of create_documents_from_file
DefaultChunkMaxLines == 400
\* ingest_codebase keeps the chunks with len(page_content) > 10
MinContentLen == 10

\* ------------------------------------------------------------------------
\* Strings
\* ------------------------------------------------------------------------
Min(a, b) == IF a <= b THEN a ELSE b

Max(a, b) == IF a >= b THEN a ELSE b

\* the characters str.strip / str.lstrip / str.rstrip and \s remove
Whitespace == {" ", "\t", "\n", "\r"}

\* s.startswith(p)
StartsWith(s, p) == Len(p) <= Len(s) /\ SubSeq(s, 1, Len(p)) = p

\* number of leading whitespace characters of s
LeadingWs(s) ==
  CHOOSE k \in 0..Len(s) :
    /\ \A i \in 1..k : s[i] \in Whitespace
    /\ (k < Len(s) => s[k + 1] \notin Whitespace)

\* s.lstrip()
LStrip(s) == SubSeq(s, LeadingWs(s) + 1, Len(s))

\* length of s without its trailing whitespace characters
TrimmedLen(s) ==
  CHOOSE k \in 0..Len(s) :
    /\ (k > 0 => s[k] \notin Whitespace)
    /\ \A i \in (k + 1)..Len(s) : s[i] \in Whitespace

\* s.rstrip()
RStrip(s) == SubSeq(s, 1, TrimmedLen(s))

\* s.strip()
Strip(s) == LStrip(RStrip(s))

\* ls[a] + ... + ls[b], halving the range to keep the evaluation shallow
RECURSIVE JoinRange(_, _, _)
JoinRange(ls, a, b) ==
  IF a > b THEN <<>>
  ELSE IF a = b THEN ls[a]
  ELSE JoinRange(ls, a, (a + b) \div 2) \o JoinRange(ls, (a + b) \div 2 + 1, b)

\* "".join(ls)
Join(ls) == JoinRange(ls, 1, Len(ls))

\* ls[a:b] of Python: negative indices count from the end, both are clamped
PyIndex(i, n) == IF i < 0 THEN Max(i + n, 0) ELSE Min(i, n)

PySlice(ls, a, b) == SubSeq(ls, PyIndex(a, Len(ls)) + 1, PyIndex(b, Len(ls)))

\* ------------------------------------------------------------------------
\* Lines and files the model feeds to the program
\* ------------------------------------------------------------------------
L_def == <<"d", "e", "f", " ", "f", "\n">>

L_deco == <<" ", "@", "d", "\n">>

L_blank == <<" ", "\n">>

L_text == <<"x", " ", "\n">>

L_class == <<"\t", "c", "l", "a", "s", "s", " ", "A", "\n">>

L_export == <<"e", "x", "p", "o", "r", "t", " ", "l", "e", "t", " ", "a", "\n">>

LineKinds == {L_def, L_deco, L_blank, L_text, L_class, L_export}

\* every file of at most MaxLen lines
ShortFiles == UNION {[1..n -> LineKinds] : n \in 0..MaxLen}

\* n copies of line l
Rep(l, n) == [i \in 1..n |-> l]

LongKinds == {L_blank, L_text, L_def}

\* run lengths around the fallback window size
LongLens == {1, FallbackSize, FallbackSize + 1}

\* files of two runs of equal lines, up to 2 * FallbackSize + 2 lines long
LongFiles ==
  {Rep(k1, n1) \o Rep(k2, n2) : k1 \in LongKinds, n1 \in LongLens,
                                k2 \in LongKinds, n2 \in LongLens}

\* the 10-line file of the line-numbering example: definitions at 2 and 5
ExampleFiles ==
  {<<L_text, L_text, L_def, L_text, L_text, L_def>> \o Rep(L_text, 4)}

\* ------------------------------------------------------------------------
\* Language classifier
\* ------------------------------------------------------------------------
\* the path suffixes tried: every key of EXT_LANG_MAP, an upper-case
\* suffix, an unknown suffix and no suffix
Suffixes ==
  {".py", ".js", ".jsx", ".ts", ".tsx", ".json", ".md", ".toml", ".yml",
   ".yaml", ".cfg", ".ini", ".txt", ".PY", ".rs", ""}

\* str.lower() on the suffixes above
Lower(ext) == IF ext = ".PY" THEN ".py" ELSE ext

EXT_LANG_MAP ==
  [e \in {".py", ".js", ".jsx", ".ts", ".tsx", ".json", ".md", ".toml",
          ".yml", ".yaml", ".cfg", ".ini", ".txt"} |->
     CASE e = ".py" -> "python"
       [] e \in {".js", ".jsx"} -> "javascript"
       [] e \in {".ts", ".tsx"} -> "typescript"
       [] e = ".json" -> "json"
       [] e = ".md" -> "markdown"
       [] e = ".toml" -> "toml"
       [] e \in {".yml", ".yaml"} -> "yaml"
       [] e \in {".cfg", ".ini"} -> "ini"
       [] e = ".txt" -> "text"]

detect_language_from_path(ext) ==
  IF Lower(ext) \in DOMAIN EXT_LANG_MAP THEN EXT_LANG_MAP[Lower(ext)]
  ELSE "text"

\* ------------------------------------------------------------------------
\* Boundary detector
\* ------------------------------------------------------------------------
\* re.compile(r"^(def |class )").match(s)
MatchPython(s) ==
  \/ StartsWith(s, <<"d", "e", "f", " ">>)
  \/ StartsWith(s, <<"c", "l", "a", "s", "s", " ">>)

JsKeywords ==
  {<<"f", "u", "n", "c", "t", "i", "o", "n", " ">>,
   <<"c", "l", "a", "s", "s", " ">>,
   <<"c", "o", "n", "s", "t", " ">>,
   <<"l", "e", "t", " ">>,
   <<"v", "a", "r", " ">>}

StartsWithKeyword(s) == \E k \in JsKeywords : StartsWith(s, k)

\* re.compile(r"^(export\s+)?(function |class |const |let |var )").match(s)
MatchJs(s) ==
  LET export == <<"e", "x", "p", "o", "r", "t">>
      rest == SubSeq(s, Len(export) + 1, Len(s))
  IN \/ StartsWithKeyword(s)
     \/ /\ StartsWith(s, export)
        /\ LeadingWs(rest) >= 1
        /\ StartsWithKeyword(LStrip(rest))

Heuristic == {"python", "javascript", "typescript"}

\* pattern.match(line.lstrip())
IsStart(line, language) ==
  IF language = "python" THEN MatchPython(LStrip(line))
  ELSE MatchJs(LStrip(line))

\* lines[j].lstrip().startswith("@")
IsDecorator(line) == StartsWith(LStrip(line), <<"@">>)

\* the k-th window without the cap at the end of the file
FallbackWindow_NoMin(k, n) ==
  <<(k - 1) * FallbackSize, (k - 1) * FallbackSize + FallbackSize>>

\* the k-th window of the fallback branch: (i, min(i + size, n)), i = (k-1)*size
FallbackWindow(k, n) ==
  <<(k - 1) * FallbackSize, Min((k - 1) * FallbackSize + FallbackSize, n)>>

\* the fallback branch: for i in range(0, n, size): append (i, min(i + size, n))
FallbackBoundaries(n) ==
  [k \in 1..((n + FallbackSize - 1) \div FallbackSize) |-> FallbackWindow(k, n)]

\* indices of the lines that match the pattern, ascending
Indices(lines, language) ==
  SelectSeq([k \in 1..Len(lines) |-> k - 1],
            LAMBDA i : IsStart(lines[i + 1], language))

\* while j >= 0 and lines[j].lstrip().startswith("@"): j -= 1
RECURSIVE WalkBack(_, _)
WalkBack(lines, j) ==
  IF j >= 0 /\ IsDecorator(lines[j + 1]) THEN WalkBack(lines, j - 1) ELSE j

\* the range start without the decorator walk-back
RangeStart_NoWalkBack(lines, language, start) == start

\* start of the range of the definition found at index start
RangeStart(lines, language, start) ==
  IF language = "python" THEN WalkBack(lines, start - 1) + 1 ELSE start

\* the ranges built from the indices
Ranges(lines, language, indices) ==
  [i \in 1..Len(indices) |->
     <<RangeStart(lines, language, indices[i]),
       IF i + 1 <= Len(indices) THEN indices[i + 1] ELSE Len(lines)>>]

\* the fixed-size fallback taken when no line matches
SingleBlock_Fallback(lines) == FallbackBoundaries(Len(lines))

\* the block returned when no line matches
SingleBlock(lines) == <<(<<0, Len(lines)>>)>>

\* insert the leading block when the first range does not start at 0
WithLeading(bs) ==
  IF bs # <<>> /\ bs[1][1] > 0 THEN <<(<<0, bs[1][1]>>)>> \o bs ELSE bs

find_code_block_boundaries(lines, language) ==
  IF language \notin Heuristic THEN FallbackBoundaries(Len(lines))
  ELSE LET indices == Indices(lines, language)
       IN IF indices = <<>> THEN SingleBlock(lines)
          ELSE WithLeading(Ranges(lines, language, indices))

\* ------------------------------------------------------------------------
\* Chunk assembler: the pieces of one iteration of the windowing loop
\* ------------------------------------------------------------------------
\* the window end without the cap at chunk_max_lines
WindowEnd_NoCap(c, maxLines, end) == end

\* chunk_end = min(cur + chunk_max_lines, end)
WindowEnd(c, maxLines, end) == Min(c + maxLines, end)

\* content = "".join(lines[cur:chunk_end]).rstrip()
WindowContent(ls, c, e) == RStrip(Join(PySlice(ls, c, e)))

\* no window is ever dropped
IsDropped_Never(text) == FALSE

\* if not content.strip()
IsDropped(text) == Strip(text) = <<>>

\* "code" if language not in ("markdown", "text", "json", "toml", "yaml") else "prose"
ChunkType(lang) ==
  IF lang \notin {"markdown", "text", "json", "toml", "yaml"} THEN "code"
  ELSE "prose"

\* line_start left 0-based
LineStart_ZeroBased(c) == c

\* "line_start": cur + 1
LineStart(c) == c + 1

\* "line_end": chunk_end
LineEnd(e) == e

\* Document(page_content=content, metadata=metadata)
MakeDocument(p, lang, text, c, e) ==
  [page_content |-> text, path |-> p, filename |-> p, language |-> lang,
   chunk_type |-> ChunkType(lang), line_start |-> LineStart(c),
   line_end |-> LineEnd(e)]

\* the dropping branch continues without moving the cursor
CurAfterDrop_Stuck(c, e) == c

\* cur = chunk_end, in the branch that drops the window
CurAfterDrop(c, e) == e

\* cur = chunk_end, in the branch that emits the window
CurAfterEmit(c, e) == e

\* ------------------------------------------------------------------------
\* State
\* ------------------------------------------------------------------------
\* what is stored at a path: open() succeeds and readlines() gives lines
Readable(ls) == [readable |-> TRUE, lines |-> ls]

\* a path that open() cannot open
Unreadable == [readable |-> FALSE, lines |-> <<>>]

VARIABLES
  path,             \* argument of create_documents_from_file: [stem, suffix]
  disk,             \* what is stored at path: Readable(lines) or Unreadable
  chunk_max_lines,  \* argument of create_documents_from_file
  language,         \* locals of create_documents_from_file
  lines,
  boundaries,
  bi,               \* position of the for loop in boundaries (1-based)
  cur,
  chunk_end,
  content,
  docs,
  pc,               \* where create_documents_from_file stands
  batch,            \* what iter_files yields: a sequence of [path, disk]
  file_idx,         \* position of the loop of ingest_codebase in batch
  file_count,
  docs_transformed,
  indexed,          \* the documents handed to index()
  run               \* where ingest_codebase stands

vars ==
  <<path, disk, chunk_max_lines, language, lines, boundaries, bi, cur,
    chunk_end, content, docs, pc, batch, file_idx, file_count,
    docs_transformed, indexed, run>>

callVars == <<path, disk, chunk_max_lines>>

ingestVars == <<batch, file_idx, file_count, docs_transformed, indexed, run>>

\* the locals of create_documents_from_file before it assigns them
LocalsUnset ==
  /\ language = ""
  /\ lines = <<>>
  /\ boundaries = <<>>
  /\ bi = 1
  /\ cur = 0
  /\ chunk_end = 0
  /\ content = <<>>
  /\ docs = <<>>

\* ingest_codebase is not running
NoIngest ==
  /\ batch = <<>>
  /\ file_idx = 1
  /\ file_count = 0
  /\ docs_transformed = <<>>
  /\ indexed = <<>>
  /\ run = "none"

\* the chunk_max_lines values tried: small ones and the default
ChunkMaxes == (1..MaxChunk) \cup {DefaultChunkMaxLines}

\* a direct call create_documents_from_file(path, chunk_max_lines) on a
\* readable file
InitCall(suffixes, files, maxes) ==
  /\ path \in {[stem |-> "f", suffix |-> s] : s \in suffixes}
  /\ disk \in {Readable(f) : f \in files}
  /\ chunk_max_lines \in maxes
  /\ pc = "call"
  /\ LocalsUnset
  /\ NoIngest

Init ==
  \/ InitCall(Suffixes, ShortFiles \cup ExampleFiles, ChunkMaxes)
  \/ InitCall(Suffixes, LongFiles, {DefaultChunkMaxLines})

\* ------------------------------------------------------------------------
\* create_documents_from_file
\* ------------------------------------------------------------------------
\* lines 103-106: classify, read, find the boundaries
Prepare ==
  /\ pc = "call"
  /\ disk.readable
  /\ language' = detect_language_from_path(path.suffix)
  /\ lines' = disk.lines
  /\ boundaries' = find_code_block_boundaries(disk.lines,
                                               detect_language_from_path(path.suffix))
  /\ docs' = <<>>
  /\ bi' = 1
  /\ pc' = "for"
  /\ UNCHANGED <<callVars, cur, chunk_end, content, ingestVars>>

\* lines 108-110: the for loop takes the next range
NextBoundary ==
  /\ pc = "for"
  /\ bi <= Len(boundaries)
  /\ cur' = boundaries[bi][1]
  /\ pc' = "while"
  /\ UNCHANGED <<callVars, language, lines, boundaries, bi, chunk_end,
                 content, docs, ingestVars>>

\* line 130: the for loop is exhausted, return docs
Return ==
  /\ pc = "for"
  /\ bi > Len(boundaries)
  /\ pc' = "done"
  /\ UNCHANGED <<callVars, language, lines, boundaries, bi, cur, chunk_end,
                 content, docs, ingestVars>>

\* lines 111-114: cur < end, compute the window and its content
Window ==
  /\ pc = "while"
  /\ cur < boundaries[bi][2]
  /\ cur > -CurFloor
  /\ chunk_end' = WindowEnd(cur, chunk_max_lines, boundaries[bi][2])
  /\ content' = WindowContent(lines, cur,
                              WindowEnd(cur, chunk_max_lines, boundaries[bi][2]))
  /\ pc' = "test"
  /\ UNCHANGED <<callVars, language, lines, boundaries, bi, cur, docs,
                 ingestVars>>

\* line 111: cur >= end, the range is exhausted
EndBlock ==
  /\ pc = "while"
  /\ cur >= boundaries[bi][2]
  /\ bi' = bi + 1
  /\ pc' = "for"
  /\ UNCHANGED <<callVars, language, lines, boundaries, cur, chunk_end,
                 content, docs, ingestVars>>

\* lines 115-117: the window is blank, skip it
Drop ==
  /\ pc = "test"
  /\ IsDropped(content)
  /\ cur' = CurAfterDrop(cur, chunk_end)
  /\ pc' = "while"
  /\ UNCHANGED <<callVars, language, lines, boundaries, bi, chunk_end,
                 content, docs, ingestVars>>

\* lines 119-128: the window becomes a Document
Emit ==
  /\ pc = "test"
  /\ ~IsDropped(content)
  /\ docs' = Append(docs, MakeDocument(path, language, content, cur, chunk_end))
  /\ cur' = CurAfterEmit(cur, chunk_end)
  /\ pc' = "while"
  /\ UNCHANGED <<callVars, language, lines, boundaries, bi, chunk_end,
                 content, ingestVars>>

Next ==
  \/ Prepare
  \/ NextBoundary
  \/ Return
  \/ Window
  \/ EndBlock
  \/ Drop
  \/ Emit

Spec == Init /\ [][Next]_vars

\* ------------------------------------------------------------------------
\* ingest_codebase: the loop over the files and the hand-over to index().
\* The model starts at line 104, with the vector store and the record
\* manager set up (lines 75-102 are calls to external services; line 75
\* names RecursiveCharacterTextSplitter, which the module never imports).
\* ------------------------------------------------------------------------
Stems == <<"a", "b", "c", "d", "e">>

\* the files a batch is made of: a suffix and what is stored at the path
BatchSuffixes == {".py", ".md"}

BatchDisks ==
  {Unreadable, Readable(<<L_blank, L_def, L_export>>), Readable(<<L_text>>)}

\* what iter_files yields: up to MaxFiles distinct paths
Batches ==
  UNION {{[i \in 1..n |-> [path |-> [stem |-> Stems[i], suffix |-> sd[i][1]],
                           disk |-> sd[i][2]]] :
            sd \in [1..n -> BatchSuffixes \X BatchDisks]} : n \in 0..MaxFiles}

\* if "source" not in d.metadata: d.metadata["source"] = d.metadata.get("path", file_path)
WithSource(d, file_path) ==
  IF "source" \in DOMAIN d THEN d ELSE ("source" :> d.path) @@ d

\* [d for d in docs_transformed if len(d.page_content) > 10]
LongEnough(ds) == SelectSeq(ds, LAMBDA d : Len(d.page_content) > MinContentLen)

IngestInit ==
  /\ batch \in Batches
  /\ file_idx = 1
  /\ file_count = 0
  /\ docs_transformed = <<>>
  /\ indexed = <<>>
  /\ run = "scan"
  /\ path = [stem |-> "", suffix |-> ""]
  /\ disk = Unreadable
  /\ chunk_max_lines = DefaultChunkMaxLines
  /\ pc = "idle"
  /\ LocalsUnset

\* lines 107-109: take the next path, call create_documents_from_file(file_path)
NextFile ==
  /\ run = "scan"
  /\ pc = "idle"
  /\ file_idx <= Len(batch)
  /\ file_count' = file_count + 1
  /\ path' = batch[file_idx].path
  /\ disk' = batch[file_idx].disk
  /\ chunk_max_lines' = DefaultChunkMaxLines
  /\ pc' = "call"
  /\ language' = ""
  /\ lines' = <<>>
  /\ boundaries' = <<>>
  /\ bi' = 1
  /\ cur' = 0
  /\ chunk_end' = 0
  /\ content' = <<>>
  /\ docs' = <<>>
  /\ UNCHANGED <<batch, file_idx, docs_transformed, indexed, run>>

\* line 104 of code_ingest_utils.py (read_file_preserve, lines 43-46): open()
\* raises; nothing between there and the caller of ingest_codebase catches it
ReadFail ==
  /\ run = "scan"
  /\ pc = "call"
  /\ ~disk.readable
  /\ pc' = "raised"
  /\ run' = "aborted"
  /\ UNCHANGED <<callVars, language, lines, boundaries, bi, cur, chunk_end,
                 content, docs, batch, file_idx, file_count,
                 docs_transformed, indexed>>

\* lines 110-114: the call returned, collect its documents
Extend ==
  /\ run = "scan"
  /\ pc = "done"
  /\ docs_transformed' =
       docs_transformed \o [i \in 1..Len(docs) |-> WithSource(docs[i], path)]
  /\ file_idx' = file_idx + 1
  /\ pc' = "idle"
  /\ UNCHANGED <<callVars, language, lines, boundaries, bi, cur, chunk_end,
                 content, docs, batch, file_count, indexed, run>>

\* lines 116-137: the loop is over, filter the chunks and index them
Index ==
  /\ run = "scan"
  /\ pc = "idle"
  /\ file_idx > Len(batch)
  /\ docs_transformed' = LongEnough(docs_transformed)
  /\ indexed' = LongEnough(docs_transformed)
  /\ run' = "done"
  /\ UNCHANGED <<callVars, language, lines, boundaries, bi, cur, chunk_end,
                 content, docs, pc, batch, file_idx, file_count>>

IngestNext ==
  \/ NextFile
  \/ ReadFail
  \/ Extend
  \/ Index
  \/ Prepare
  \/ NextBoundary
  \/ Return
  \/ Window
  \/ EndBlock
  \/ Drop
  \/ Emit

IngestSpec == IngestInit /\ [][IngestNext]_vars

\* ------------------------------------------------------------------------
\* create_documents_from_file called with any integer chunk_max_lines; the
\* interpreter runs the call until it returns.
\* ------------------------------------------------------------------------
AnyChunkMaxes == {-1, 0} \cup ChunkMaxes

\* one suffix of each family: indentation-block, brace-block, fallback
FamilySuffixes == {".py", ".ts", ".md"}

\* the lines that decide how the loop runs: a definition, a decorator, a
\* blank line, text
LoopKinds == {L_def, L_deco, L_blank, L_text}

LoopFiles == UNION {[1..n -> LoopKinds] : n \in 0..MaxLen}

AnyIntInit == InitCall(FamilySuffixes, LoopFiles, AnyChunkMaxes)

AnyIntSpec == AnyIntInit /\ [][Next]_vars /\ WF_vars(Next)

\* ------------------------------------------------------------------------
\* Properties
\* ------------------------------------------------------------------------
\* find_code_block_boundaries has just returned
JustPrepared == pc = "for" /\ bi = 1

\* some character of some line of ls is not whitespace
HasText(ls) ==
  \E i \in 1..Len(ls) : \E j \in 1..Len(ls[i]) : ls[i][j] \notin Whitespace

\* the 0-based indices of the lines that start a definition
StartSet == {s \in 0..(Len(lines) - 1) : IsStart(lines[s + 1], language)}

\* C1: the ranges returned by find_code_block_boundaries partition
\* [0, len(lines)): the first starts at 0, each ends where the next starts,
\* the last ends at len(lines) (an empty list only for an empty file).
C1_BoundariesPartition ==
  JustPrepared =>
    IF boundaries = <<>> THEN Len(lines) = 0
    ELSE /\ boundaries[1][1] = 0
         /\ boundaries[Len(boundaries)][2] = Len(lines)
         /\ \A i \in 1..(Len(boundaries) - 1) :
              boundaries[i][2] = boundaries[i + 1][1]

\* C2: every emitted chunk covers at most chunk_max_lines source lines.
C2_ChunkWithinMaxLines ==
  \A i \in 1..Len(docs) :
    docs[i].line_end - docs[i].line_start + 1 <= chunk_max_lines

C2_Witness ==
  /\ chunk_max_lines = DefaultChunkMaxLines
  /\ Len(lines) > DefaultChunkMaxLines
  /\ \E i \in 1..Len(docs) :
       docs[i].line_end - docs[i].line_start + 1 = DefaultChunkMaxLines

\* the file is of a heuristic language and none of its lines starts a definition
NoDefinitionFile == pc = "done" /\ language \in Heuristic /\ StartSet = {}

\* exactly one chunk, spanning the whole file
OneWholeFileChunk ==
  /\ Len(docs) = 1
  /\ docs[1].line_start = 1
  /\ docs[1].line_end = Len(lines)

\* C3 as stated: a heuristic-language file without a matching line gives the
\* single range (0, len(lines)) and exactly one chunk spanning the whole
\* file, for every file length.
C3_Original ==
  NoDefinitionFile =>
    /\ boundaries = <<(<<0, Len(lines)>>)>>
    /\ OneWholeFileChunk

\* C3 amended: a heuristic-language file without a matching line gives the
\* single range (0, len(lines)); it gives exactly one chunk spanning the
\* whole file when it has at most chunk_max_lines lines and some
\* non-whitespace character.
C3_Amended ==
  NoDefinitionFile =>
    /\ boundaries = <<(<<0, Len(lines)>>)>>
    /\ (Len(lines) <= chunk_max_lines /\ HasText(lines) => OneWholeFileChunk)

C3_Witness ==
  /\ NoDefinitionFile
  /\ Len(lines) >= 2
  /\ Len(lines) <= chunk_max_lines
  /\ OneWholeFileChunk

\* the smallest j <= s such that every line in [j, s) is a decorator line
SmallestDecoratedStart(s) ==
  CHOOSE j \in 0..s :
    /\ \A k \in j..(s - 1) : IsDecorator(lines[k + 1])
    /\ \A j2 \in 0..(j - 1) : \E k \in j2..(s - 1) : ~IsDecorator(lines[k + 1])

C5_EmitIffNonBlank ==
  [][/\ \A i \in 1..Len(docs') : HasText(<<docs'[i].page_content>>)
     /\ pc = "test" =>
          /\ cur' = chunk_end
          /\ IF HasText(SubSeq(lines, cur + 1, chunk_end))
             THEN Len(docs') = Len(docs) + 1
             ELSE docs' = docs]_vars

C5_Witness ==
  /\ pc = "done"
  /\ Len(boundaries) >= 2
  /\ boundaries[1] = <<0, 1>>
  /\ ~HasText(<<lines[1]>>)
  /\ Len(docs) = 1
  /\ docs[1].line_start = 2

\* C6: a chunk built from the window [cur, chunk_end) reports
\* line_start = cur + 1 and line_end = chunk_end, and its content is the
\* right-trimmed concatenation of the file's lines line_start..line_end
\* (1-based, both inclusive); content is that text while the window is
\* under test, and a chunk is only ever appended from there.
C6_LineNumbering ==
  /\ [](pc = "test" =>
          content = RStrip(Join(SubSeq(lines, cur + 1, chunk_end))))
  /\ [][Len(docs') = Len(docs) + 1 =>
          LET d == docs'[Len(docs')]
          IN /\ pc = "test"
             /\ d.line_start = cur + 1
             /\ d.line_end = chunk_end
             /\ 1 <= d.line_start
             /\ d.line_start <= d.line_end
             /\ d.line_end <= Len(lines)
             /\ d.page_content = content]_vars

C6_Witness ==
  /\ Len(lines) = 10
  /\ \E i \in 1..Len(docs) : docs[i].line_start = 3 /\ docs[i].line_end = 5

\* C7: chunk_type is "prose" for the markup, config and text tags (json,
\* markdown, toml, yaml, ini, text) and "code" for python, javascript,
\* typescript.
C7_ChunkTypeByLanguage ==
  \A i \in 1..Len(docs) :
    docs[i].chunk_type =
      IF docs[i].language \in {"json", "markdown", "toml", "yaml", "ini", "text"}
      THEN "prose" ELSE "code"

C9_FailureIsFileScoped ==
  run \in {"done", "aborted"} =>
    /\ run = "done"
    /\ file_count = Len(batch)
    /\ \A i \in 1..Len(batch) :
         (batch[i].disk.readable /\ HasText(batch[i].disk.lines)) =>
           \E k \in 1..Len(docs_transformed) :
             docs_transformed[k].path = batch[i].path
    /\ indexed = LongEnough(docs_transformed)

\* C10 as stated: for every integer chunk_max_lines the loop advances its
\* cursor on every iteration and the call returns.
C10_Original ==
  /\ [][pc = "test" => cur' > cur]_vars
  /\ <>(pc = "done")

\* C10 amended: for every positive chunk_max_lines the loop advances its
\* cursor on every iteration and the call returns.
C10_Amended ==
  /\ [][(chunk_max_lines > 0 /\ pc = "test") => cur' > cur]_vars
  /\ (chunk_max_lines > 0) ~> (pc = "done")

C10_Witness ==
  /\ pc = "done"
  /\ chunk_max_lines = 1
  /\ Len(lines) >= 2
  /\ Len(docs) >= 1
  /\ Len(docs) < Len(lines)

====
